---- MODULE Spec2Model ----
(***************************************************************************)
(* Model of the two conversation surfaces of washgit/IT:                   *)
(*   src/components/ChatBot.tsx         turn-based text chat               *)
(*   src/components/LiveVoiceAgent.tsx  duplex voice session               *)
(*                                                                         *)
(* Three specifications share the variables:                               *)
(*   SpecSan    the history sanitizer of initChat over every persisted log *)
(*   SpecText   the text engine (handleSendMessage, clearHistory, effects) *)
(*   SpecVoice  the inbound message handler of a live voice connection     *)
(* Texts are sequences of one-character strings, so that trim() and        *)
(* concatenation are computed and not assumed.                             *)
(***************************************************************************)
EXTENDS Integers, Sequences, FiniteSets, TLC

VARIABLES
    \* ---- ChatBot.tsx ----
    messages,          \* useState<Message[]>            (line 22)
    isLoading,         \* useState(false)                (line 39)
    chatSession,       \* useState<Chat | null>          (line 40)
    error,             \* useState<string | null>        (line 41)
    isOpen,            \* prop isOpen                    (line 8)
    apiKey,            \* process.env.API_KEY present    (line 120)
    initialMessage,    \* prop initialMessage            (line 10)
    clock,             \* Date.now() (lines 247, 257); at least a millisecond
                       \* passes across each network await, so ids are fresh
    pc,                \* position of the one running handleSendMessage
    botMsgId,          \* local botMsgId                 (line 257)
    fullResponseText,  \* local fullResponseText         (line 256)
    stream,            \* the fragments the response stream has yet to deliver
    chunk,             \* the fragment being processed: remaining calls, text
    service,           \* what the text session received: sends, in order
    fragsSeen,         \* history: fragments delivered in this exchange
    acksSeen,          \* history: tool acknowledgment replies of this exchange
    lastCall,          \* history: the last handler entered and how it ended
    \* ---- both components ----
    presented,         \* calls of openBookingForm(draft), in order
    \* ---- LiveVoiceAgent.tsx ----
    now,               \* outputAudioContextRef.current.currentTime
    nextStartTime,     \* nextStartTimeRef                (line 30)
    sources,           \* sourcesRef: the active set      (line 31)
    clips,             \* history: every source started, by clip id
    decoding,          \* onmessage handlers suspended in decodeAudioData
    arrived,           \* number of messages delivered to onmessage
    interruptedAt,     \* history: arrival number of the last interruption, its time
    whatsappUrl,       \* useState whatsappUrl            (line 20)
    toolResponses,     \* sendToolResponse calls, in order
    toolCalls,         \* history: message.toolCall.functionCalls received, in order
    vOpen,             \* prop isOpen of the voice surface (line 8)
    status,            \* useState status                (line 19)
    isConnected,       \* useState isConnected           (line 16)
    isMuted,           \* useState isMuted               (line 17)
    sessionPromiseRef, \* sessionPromiseRef: the connection it holds, or none (line 40)
    sessionRef,        \* sessionRef: the connection it holds, or none (line 39)
    inputCtx,          \* inputAudioContextRef           (line 23)
    outputCtx,         \* outputAudioContextRef          (line 24)
    streamRef,         \* streamRef: the capture stream  (line 25)
    capturing,         \* processorRef: the installed onaudioprocess closure
    conns,             \* every connection ai.live.connect opened, in order
    vLast              \* history: the last voice handler run and what it did

textVars == <<messages, isLoading, chatSession, error, isOpen, apiKey,
              initialMessage, clock, pc, botMsgId, fullResponseText, stream, chunk,
              service, fragsSeen, acksSeen, lastCall>>
voiceVars == <<now, nextStartTime, sources, clips, decoding, arrived,
               interruptedAt, whatsappUrl, toolResponses, toolCalls>>
sessVars == <<vOpen, status, isConnected, isMuted, sessionPromiseRef, sessionRef,
              inputCtx, outputCtx, streamRef, capturing, conns, vLast>>
vars == <<textVars, presented, voiceVars, sessVars>>

(***************************************************************************)
(* Bounds of the model.                                                    *)
(***************************************************************************)
MaxConns == 2        \* connections opened per behaviour of SpecReconnect
MaxSessions == 1     \* connections opened per behaviour of SpecSession
MaxSessionMsgs == 1  \* messages delivered per behaviour of SpecSession
MaxLog == 3          \* longest persisted turn log drawn in SpecSan
MaxSubmits == 2      \* accepted submits per behaviour of SpecText
MaxMsgs == 3         \* inbound voice messages per behaviour
MaxTime == 3         \* last instant of the output timeline

(***************************************************************************)
(* Texts.                                                                  *)
(***************************************************************************)
Space == " "

\* String.prototype.trim: strip leading and trailing white space.
RECURSIVE TrimLeft(_)
TrimLeft(t) ==
    IF t = <<>> THEN <<>>
    ELSE IF Head(t) = Space THEN TrimLeft(Tail(t)) ELSE t

RECURSIVE TrimRight(_)
TrimRight(t) ==
    IF t = <<>> THEN <<>>
    ELSE IF t[Len(t)] = Space THEN TrimRight(SubSeq(t, 1, Len(t) - 1)) ELSE t

Trim(t) == TrimRight(TrimLeft(t))

\* Texts a persisted turn may hold: empty, blank, plain, padded.
LogTexts == {<<>>, <<" ">>, <<"A">>, <<" ", "B">>}

(***************************************************************************)
(* Turns (interface Message, lines 14-18) and the seed greeting.           *)
(***************************************************************************)
SeedId == 1
Roles == {"user", "model"}
SeedText == <<"S">>
SeedTurn == [id |-> SeedId, role |-> "model", text |-> SeedText]

NoSession == [exists |-> FALSE, history |-> <<>>]

(***************************************************************************)
(* initChat: the history sanitizer (lines 127-167).                        *)
(***************************************************************************)
\* a filter that removes the seed turn only
KeepNonSeed(msg) == msg.id # SeedId

\* line 132: messages.filter(msg => msg.id !== '1' && msg.text.trim() !== '')
KeepForHistory(msg) == msg.id # SeedId /\ Trim(msg.text) # <<>>

HistoryMessages(log) == SelectSeq(log, KeepForHistory)

\* an expected role that is never flipped
FlipRoleNever(role) == role

\* line 141
FlipRole(role) == IF role = "user" THEN "model" ELSE "user"

\* lines 134-157: the forEach walk; a turn is pushed when its role is the
\* expected one, and skipped otherwise.
RECURSIVE Walk(_, _, _)
Walk(rest, expectedRole, validHistory) ==
    IF rest = <<>> THEN validHistory
    ELSE LET msg == Head(rest) IN
         IF msg.role = expectedRole
         THEN Walk(Tail(rest), FlipRole(expectedRole),
                   Append(validHistory, [role |-> msg.role, text |-> msg.text]))
         ELSE Walk(Tail(rest), expectedRole, validHistory)

PopTrailingUserNever(validHistory) == validHistory

\* lines 163-167
PopTrailingUser(validHistory) ==
    IF Len(validHistory) > 0 /\ validHistory[Len(validHistory)].role = "user"
    THEN SubSeq(validHistory, 1, Len(validHistory) - 1)
    ELSE validHistory

Sanitize(log) == PopTrailingUser(Walk(HistoryMessages(log), "user", <<>>))

(***************************************************************************)
(* Tool invocations (functionCall parts) and the booking draft.            *)
(***************************************************************************)
Undefined == "undefined"
BookingTool == "open_booking_form"
WhatsappTool == "update_whatsapp_context"
OtherTool == "mystery_tool"

ArgsSam == [name |-> "Sam", phone |-> Undefined, email |-> Undefined,
            address |-> Undefined, deviceType |-> Undefined,
            serviceType |-> Undefined, issue |-> Undefined,
            summary |-> <<"a", " ", "b">>]
ArgsFull == [name |-> "Sam", phone |-> "081", email |-> "s@x", address |-> "31 Maple",
             deviceType |-> "iPhone", serviceType |-> "Repair", issue |-> "screen",
             summary |-> <<"a", "&", "b">>]

\* the draft with description read from an argument of its own name
BookingDataSameNames(args) ==
    [name |-> args.name, phone |-> args.phone, email |-> args.email,
     address |-> args.address, deviceType |-> args.deviceType,
     serviceType |-> args.serviceType, description |-> Undefined]

\* lines 271-279 (ChatBot) and 156-164 (LiveVoiceAgent): the same mapping
BookingData(args) ==
    [name |-> args.name, phone |-> args.phone, email |-> args.email,
     address |-> args.address, deviceType |-> args.deviceType,
     serviceType |-> args.serviceType, description |-> args.issue]

Call(id, name, args) == [id |-> id, name |-> name, args |-> args]

\* a collaborator call that keeps the fields of the draft shown before where
\* the invocation leaves them unset
OpenBookingFormMerging(shown, args) ==
    LET draft == BookingData(args) IN
    IF shown = <<>> THEN <<draft>>
    ELSE Append(shown, [f \in DOMAIN draft |->
                          IF draft[f] = Undefined THEN shown[Len(shown)][f]
                          ELSE draft[f]])

\* lines 280 (ChatBot) and 165 (LiveVoiceAgent): openBookingForm(bookingData)
OpenBookingForm(shown, args) == Append(shown, BookingData(args))

(***************************************************************************)
(* ChatBot.tsx: the text engine.                                           *)
(***************************************************************************)
NoError == "null"
ErrNoKey == "API Key missing. System offline."
ErrInit == "Neural Link Failed."
ErrStream == "Data Stream Interrupted."
NoMessage == <<>>
NoId == 0
ClockStart == 10
FormOpenedText == "Form Opened with prefilled data."

\* Texts the user may submit: empty, blank, plain.
InputTexts == {<<>>, <<" ">>, <<"q">>}
\* Response streams the service may deliver (a finite sequence of fragments,
\* each with its functionCall parts and its text).
PlainX == [calls |-> <<>>, text |-> <<"x">>]
PlainY == [calls |-> <<>>, text |-> <<"y">>]
OtherThenBooking ==
    [calls |-> <<Call("c2", OtherTool, ArgsSam), Call("c1", BookingTool, ArgsSam)>>,
     text |-> <<"y">>]
TwoBookings ==
    [calls |-> <<Call("c1", BookingTool, ArgsSam), Call("c3", BookingTool, ArgsFull)>>,
     text |-> <<"x">>]
StreamPool == { <<PlainX, PlainY>>, <<OtherThenBooking, PlainX>>, <<TwoBookings>> }
\* Texts the reply to a tool acknowledgment may carry (toolResp.text).
AckTexts == {<<>>, <<"k">>}

NoChunk == [calls |-> <<>>, text |-> <<>>]
Did(op, blank) == [op |-> op, blank |-> blank]

AcceptedSubmits == Len(SelectSeq(service, LAMBDA s : s.kind = "stream"))

AppendTextFront(full, piece) == piece \o full

\* lines 294 and 306: fullResponseText += piece
AppendText(full, piece) == full \o piece

\* a map that rewrites every model turn
SetModelTexts(log, id, text) ==
    [i \in 1..Len(log) |-> IF log[i].role = "model" THEN [log[i] EXCEPT !.text = text]
                           ELSE log[i]]

\* lines 295-299 and 308-312: prev.map(msg => msg.id === botMsgId ? {...msg, text} : msg)
SetBotText(log, id, text) ==
    [i \in 1..Len(log) |-> IF log[i].id = id THEN [log[i] EXCEPT !.text = text]
                           ELSE log[i]]

SubmitGuardNoLoading(text) == Trim(text) = <<>> \/ ~chatSession.exists

\* line 245: if (!text.trim() || !chatSession || isLoading) return;
SubmitRejected(text) == Trim(text) = <<>> \/ ~chatSession.exists \/ isLoading

\* lines 244-254: handleSendMessage up to its first await
HandleSendMessage(text) ==
    /\ lastCall' = Did("submit", Trim(text) = <<>>)
    /\ IF SubmitRejected(text)
       THEN UNCHANGED <<messages, isLoading, error, clock, pc, botMsgId,
                        fullResponseText, stream, chunk, service, fragsSeen, acksSeen>>
       ELSE /\ AcceptedSubmits < MaxSubmits
            /\ messages' = Append(messages, [id |-> clock, role |-> "user", text |-> text])
            /\ isLoading' = TRUE
            /\ error' = NoError
            /\ service' = Append(service, [kind |-> "stream", text |-> text])
            /\ clock' = clock + 1
            /\ pc' = "opening"
            /\ botMsgId' = NoId
            /\ fullResponseText' = <<>>
            /\ stream' = <<>>
            /\ chunk' = NoChunk
            /\ fragsSeen' = <<>>
            /\ acksSeen' = <<>>
    /\ UNCHANGED <<chatSession, isOpen, apiKey, initialMessage, presented, voiceVars, sessVars>>

\* lines 482, 488: Enter or the send button
SubmitInput == isOpen /\ \E text \in InputTexts : HandleSendMessage(text)

\* lines 229-237: the initial-message effect
InitialMessageEffect ==
    /\ isOpen /\ initialMessage # NoMessage /\ chatSession.exists
    /\ HandleSendMessage(initialMessage)

\* lines 256-259: the stream opened; the placeholder turn is appended
StreamOpened ==
    /\ pc = "opening"
    /\ botMsgId' = clock + 1
    /\ clock' = clock + 2
    /\ fullResponseText' = <<>>
    /\ messages' = Append(messages, [id |-> clock + 1, role |-> "model", text |-> <<>>])
    /\ pc' = "streaming"
    /\ stream' \in StreamPool
    /\ lastCall' = Did("opened", FALSE)
    /\ UNCHANGED <<isLoading, chatSession, error, isOpen, apiKey, initialMessage,
                   chunk, service, fragsSeen, acksSeen, presented, voiceVars, sessVars>>

CatchAndRollback ==
    /\ error' = ErrStream
    /\ isLoading' = FALSE
    /\ pc' = "idle"
    /\ lastCall' = Did("fail", FALSE)
    /\ messages' = SelectSeq(messages, LAMBDA m : m.id # botMsgId)
    /\ UNCHANGED <<chatSession, isOpen, apiKey, initialMessage, clock, botMsgId,
                   fullResponseText, stream, chunk, service, fragsSeen, acksSeen, presented,
                   voiceVars, sessVars>>

\* lines 314-320: catch and finally
CatchAndFinally ==
    /\ error' = ErrStream
    /\ isLoading' = FALSE
    /\ pc' = "idle"
    /\ lastCall' = Did("fail", FALSE)
    /\ UNCHANGED <<messages, chatSession, isOpen, apiKey, initialMessage, clock, botMsgId,
                   fullResponseText, stream, chunk, service, fragsSeen, acksSeen, presented,
                   voiceVars, sessVars>>

\* line 254 throws
StreamOpenFails == pc = "opening" /\ CatchAndFinally

\* line 261 throws: the iteration fails between fragments
StreamFails == pc = "streaming" /\ CatchAndFinally

\* line 283 throws: the tool-result send fails
ToolReplyFails == pc = "toolwait" /\ CatchAndFinally

\* lines 268-312 from the given position in the fragment: calls that are not
\* open_booking_form are passed over (line 269); at the first open_booking_form
\* the form is presented, the functionResponse is sent and the handler waits for
\* the reply (lines 280-290); with no call left the fragment's text is appended.
RECURSIVE SkipOthers(_)
SkipOthers(calls) ==
    IF calls = <<>> THEN <<>>
    ELSE IF Head(calls).name = BookingTool THEN calls
    ELSE SkipOthers(Tail(calls))

ContinueFragment(full, calls, text) ==
    LET rest == SkipOthers(calls) IN
    IF rest # <<>>
    THEN /\ presented' = OpenBookingForm(presented, Head(rest).args)
         /\ service' = Append(service, [kind |-> "functionResponse",
                                        name |-> BookingTool,
                                        text |-> FormOpenedText])
         /\ chunk' = [calls |-> Tail(rest), text |-> text]
         /\ pc' = "toolwait"
         /\ fullResponseText' = full
         /\ messages' = IF full = fullResponseText THEN messages
                        ELSE SetBotText(messages, botMsgId, full)
    ELSE /\ fullResponseText' = AppendText(full, text)
         /\ messages' = SetBotText(messages, botMsgId, AppendText(full, text))
         /\ chunk' = NoChunk
         /\ pc' = "streaming"
         /\ UNCHANGED <<presented, service>>

\* lines 261-312: one fragment of the stream arrives
FragmentArrives ==
    /\ pc = "streaming"
    /\ stream # <<>>
    /\ stream' = Tail(stream)
    /\ fragsSeen' = Append(fragsSeen, Head(stream))
    /\ ContinueFragment(fullResponseText, Head(stream).calls, Head(stream).text)
    /\ lastCall' = Did("fragment", FALSE)
    /\ UNCHANGED <<isLoading, chatSession, error, isOpen, apiKey, initialMessage, clock,
                   botMsgId, acksSeen, voiceVars, sessVars>>

\* lines 292-300, then the rest of the fragment: the reply to the tool result
ToolReplyArrives ==
    /\ pc = "toolwait"
    /\ \E ack \in AckTexts :
          /\ acksSeen' = Append(acksSeen, ack)
          /\ ContinueFragment(IF ack # <<>> THEN AppendText(fullResponseText, ack)
                              ELSE fullResponseText,
                              chunk.calls, chunk.text)
    /\ lastCall' = Did("toolreply", FALSE)
    /\ UNCHANGED <<isLoading, chatSession, error, isOpen, apiKey, initialMessage, clock,
                   botMsgId, stream, fragsSeen, voiceVars, sessVars>>

\* lines 318-320: the stream is exhausted
StreamEnds ==
    /\ pc = "streaming"
    /\ stream = <<>>
    /\ isLoading' = FALSE
    /\ pc' = "idle"
    /\ lastCall' = Did("end", FALSE)
    /\ UNCHANGED <<messages, chatSession, error, isOpen, apiKey, initialMessage, clock,
                   botMsgId, fullResponseText, stream, chunk, service, fragsSeen, acksSeen,
                   presented, voiceVars, sessVars>>

\* lines 323-327
ClearHistory ==
    /\ isOpen
    /\ messages' = <<SeedTurn>>
    /\ chatSession' = NoSession
    /\ lastCall' = Did("clear", FALSE)
    /\ UNCHANGED <<isLoading, error, isOpen, apiKey, initialMessage, clock, pc, botMsgId,
                   fullResponseText, stream, chunk, service, fragsSeen, acksSeen, presented,
                   voiceVars, sessVars>>

\* the guard of line 223 without its test of the session
InitChatGuardOpenOnly(open, session) == open

\* line 223: if (isOpen && !chatSession) initChat()
ShouldInitChat(open, session) == open /\ ~session.exists

\* an effect that creates the session without looking at the key
InitChatEffectKeyless ==
    /\ ShouldInitChat(isOpen, chatSession)
    /\ chatSession' = [exists |-> TRUE, history |-> Sanitize(messages)]
    /\ lastCall' = Did("init", FALSE)
    /\ UNCHANGED <<messages, isLoading, error, isOpen, apiKey, initialMessage, clock, pc,
                   botMsgId, fullResponseText, stream, chunk, service, fragsSeen, acksSeen,
                   presented, voiceVars, sessVars>>

\* lines 117-226: the effect that creates the session
InitChatEffect ==
    /\ ShouldInitChat(isOpen, chatSession)
    /\ IF ~apiKey
       THEN error' = ErrNoKey /\ UNCHANGED chatSession
       ELSE \/ /\ chatSession' = [exists |-> TRUE, history |-> Sanitize(messages)]
               /\ UNCHANGED error
            \/ /\ error' = ErrInit
               /\ UNCHANGED chatSession
    /\ lastCall' = Did("init", FALSE)
    /\ UNCHANGED <<messages, isLoading, isOpen, apiKey, initialMessage, clock, pc,
                   botMsgId, fullResponseText, stream, chunk, service, fragsSeen, acksSeen,
                   presented, voiceVars, sessVars>>

\* the parent opens or closes the chat surface (prop isOpen; line 422)
ToggleOpen ==
    /\ isOpen' = ~isOpen
    /\ lastCall' = Did("toggle", FALSE)
    /\ UNCHANGED <<messages, isLoading, chatSession, error, apiKey, initialMessage, clock,
                   pc, botMsgId, fullResponseText, stream, chunk, service, fragsSeen, acksSeen,
                   presented, voiceVars, sessVars>>

(***************************************************************************)
(* LiveVoiceAgent.tsx: the inbound message handler of a live connection.   *)
(***************************************************************************)
WhatsappBase == <<"https://wa.me/27817463629">>
NoConn == 0
NotStopped == -1

Max(a, b) == IF a >= b THEN a ELSE b
Min(a, b) == IF a <= b THEN a ELSE b

\* encodeURIComponent on the characters the summaries use (line 147)
EncodeChar(c) ==
    IF c = " " THEN <<"%", "2", "0">>
    ELSE IF c = "&" THEN <<"%", "2", "6">>
    ELSE <<c>>

RECURSIVE EncodeURIComponent(_)
EncodeURIComponent(t) ==
    IF t = <<>> THEN <<>> ELSE EncodeChar(Head(t)) \o EncodeURIComponent(Tail(t))

\* line 148
WhatsappLink(summary) == WhatsappBase \o <<"?text=">> \o EncodeURIComponent(summary)

\* Inbound messages: serverContent.interrupted, toolCall.functionCalls,
\* and the duration of the audio of serverContent.modelTurn (0: none).
VoiceMsg(interrupted, calls, audio) ==
    [interrupted |-> interrupted, calls |-> calls, audio |-> audio]

VoiceMsgPool ==
    { VoiceMsg(FALSE, <<>>, 1),
      VoiceMsg(FALSE, <<>>, 2),
      VoiceMsg(TRUE, <<>>, 0),
      VoiceMsg(TRUE, <<>>, 1),
      VoiceMsg(FALSE, <<Call("c1", BookingTool, ArgsSam)>>, 0),
      VoiceMsg(FALSE, <<Call("c2", WhatsappTool, ArgsFull),
                        Call("c3", OtherTool, ArgsSam)>>, 1) }

\* lines 144-173: the response of one function call
ResponseFor(fc) ==
    IF fc.name = WhatsappTool
    THEN [id |-> fc.id, name |-> fc.name, result |-> "WhatsApp Link Updated successfully."]
    ELSE IF fc.name = BookingTool
    THEN [id |-> fc.id, name |-> fc.name,
          result |-> "Booking Form Opened/Updated on User Screen."]
    ELSE [id |-> fc.id, name |-> fc.name, result |-> "Unknown tool"]

Responses(calls) == [i \in 1..Len(calls) |-> ResponseFor(calls[i])]

\* line 165, over the calls of one message in order
RECURSIVE PresentAll(_, _)
PresentAll(shown, calls) ==
    IF calls = <<>> THEN shown
    ELSE PresentAll(IF Head(calls).name = BookingTool
                    THEN OpenBookingForm(shown, Head(calls).args) ELSE shown,
                    Tail(calls))

\* the contact link left as it was
LinkNotUpdated(url, calls) == url

\* line 148, over the calls of one message in order
RECURSIVE LinkAfter(_, _)
LinkAfter(url, calls) ==
    IF calls = <<>> THEN url
    ELSE LinkAfter(IF Head(calls).name = WhatsappTool
                   THEN WhatsappLink(Head(calls).args.summary) ELSE url,
                   Tail(calls))

InterruptCursorKept(cursor, currentTime) == cursor

\* line 136: nextStartTimeRef.current = outputAudioContextRef.current.currentTime
InterruptCursor(cursor, currentTime) == currentTime

AudioOfAny(message) == message.audio

\* lines 139 and 186-187: the audio a message hands to decodeAudioData; an
\* interrupted message returns before its audio is looked at
AudioOf(message) == IF message.interrupted THEN 0 ELSE message.audio

StartAtNow(cursor, currentTime) == currentTime

\* line 194: Math.max(nextStartTimeRef.current, ctx.currentTime)
StartAt(cursor, currentTime) == Max(cursor, currentTime)

\* a cursor left at the start of the clip
CursorNotAdvanced(startAt, duration) == startAt

\* line 208: nextStartTimeRef.current += audioBuffer.duration
AdvanceCursor(startAt, duration) == startAt + duration

\* lines 130-133: source.stop() on every source of the active set
StopAll(played, active, currentTime) ==
    [i \in 1..Len(played) |->
        IF i \in active THEN [played[i] EXCEPT !.stoppedAt = currentTime] ELSE played[i]]

NoInterruption == [seq |-> 0, time |-> 0, cursorBefore |-> 0, bundled |-> 0, fresh |-> FALSE]

\* lines 123-191: onmessage up to its await
OnMessageFrom(pool) ==
    /\ Len(arrived) < MaxMsgs
    /\ \E message \in pool :
         /\ message.calls # <<>> => Len(toolResponses) < MaxMsgs - 1
         /\ arrived' = Append(arrived, message.interrupted)
         /\ IF message.interrupted
            THEN /\ clips' = StopAll(clips, sources, now)
                 /\ sources' = {}
                 /\ nextStartTime' = InterruptCursor(nextStartTime, now)
                 /\ interruptedAt' = [seq |-> Len(arrived) + 1, time |-> now,
                                      cursorBefore |-> nextStartTime,
                                      bundled |-> message.audio, fresh |-> TRUE]
                 /\ UNCHANGED <<whatsappUrl, presented, toolResponses, toolCalls>>
            ELSE /\ whatsappUrl' = LinkAfter(whatsappUrl, message.calls)
                 /\ presented' = PresentAll(presented, message.calls)
                 /\ toolCalls' = IF message.calls # <<>>
                                 THEN Append(toolCalls, message.calls)
                                 ELSE toolCalls
                 /\ toolResponses' = IF message.calls # <<>> /\ sessionPromiseRef # NoConn
                                     THEN Append(toolResponses, Responses(message.calls))
                                     ELSE toolResponses
                 /\ UNCHANGED <<clips, sources, nextStartTime, interruptedAt>>
         /\ decoding' = IF AudioOf(message) > 0
                        THEN decoding \cup {[seq |-> Len(arrived) + 1,
                                             dur |-> AudioOf(message)]}
                        ELSE decoding
    /\ UNCHANGED <<now, textVars>>

\* lines 123-191 on the one live connection of SpecVoice
OnMessage == OnMessageFrom(VoiceMsgPool) /\ UNCHANGED sessVars

\* lines 193-212: decodeAudioData resolved; the clip is scheduled
ScheduleClip ==
    \E d \in decoding :
       LET startAt == StartAt(nextStartTime, now) IN
       /\ decoding' = decoding \ {d}
       /\ clips' = Append(clips, [msg |-> d.seq, start |-> startAt,
                                  end |-> startAt + d.dur, callNow |-> now,
                                  stoppedAt |-> NotStopped,
                                  first |-> interruptedAt.fresh])
       /\ nextStartTime' = AdvanceCursor(startAt, d.dur)
       /\ sources' = sources \cup {Len(clips) + 1}
       /\ interruptedAt' = [interruptedAt EXCEPT !.fresh = FALSE]
       /\ UNCHANGED <<now, arrived, whatsappUrl, toolResponses, toolCalls, presented,
                      textVars>>

\* lines 193-212 on the one live connection of SpecVoice
DecodeDone == ScheduleClip /\ UNCHANGED sessVars

\* line 212: source.onended, after the clip played to its end
Ended ==
    \E id \in sources :
       /\ now >= clips[id].end
       /\ sources' = sources \ {id}
       /\ UNCHANGED <<now, nextStartTime, clips, decoding, arrived, interruptedAt,
                      whatsappUrl, toolResponses, toolCalls, presented, textVars,
                      sessVars>>

\* the output context's clock advances
Tick ==
    /\ now < MaxTime
    /\ now' = now + 1
    /\ UNCHANGED <<nextStartTime, sources, clips, decoding, arrived, interruptedAt,
                   whatsappUrl, toolResponses, toolCalls, presented, textVars, sessVars>>

(***************************************************************************)
(* LiveVoiceAgent.tsx: the life of a voice session.                        *)
(***************************************************************************)
\* a connection as ai.live.connect made it (line 274): its transport, the
\* position of its onopen handler at getUserMedia, and the isMuted of the
\* render whose startSession created its callbacks
NewConn(muted) == [state |-> "opening", mic |-> "none", mutedSeen |-> muted]

\* the script processor: whether it is wired and delivers buffers, the isMuted
\* its onaudioprocess closure holds, and whether an audioprocess event of a
\* processor that has been disconnected is still queued
NoProcessor == [on |-> FALSE, mutedSeen |-> FALSE, queued |-> FALSE]

\* what the last handler did: whether it made teardown calls, what it sent to
\* the connection sessionPromiseRef held, and the connection whose callback it
\* was (NoConn for the handlers of the component itself)
Ran(op, tore, sent) == [op |-> op, tore |-> tore, sent |-> sent, on |-> NoConn]

\* the same for a callback of connection c
RanOn(op, sent, c) == [op |-> op, tore |-> FALSE, sent |-> sent, on |-> c]

\* the messages of a session: a clip, and a toolCall with two invocations
SessionMsgPool ==
    { VoiceMsg(FALSE, <<>>, 1),
      VoiceMsg(FALSE, <<Call("c2", WhatsappTool, ArgsFull),
                        Call("c3", OtherTool, ArgsSam)>>, 0) }

\* lines 85-104, 274-281: startSession up to its await
StartSessionWithin(op, limit) ==
    /\ vLast' = Ran(op, FALSE, "none")
    /\ IF ~apiKey
       THEN /\ status' = "error"
            /\ UNCHANGED <<now, inputCtx, outputCtx, conns, sessionPromiseRef>>
       ELSE /\ Len(conns) < limit
            /\ status' = "connecting"
            /\ inputCtx' = "running"
            /\ outputCtx' = "running"
            /\ now' = 0
            /\ conns' = Append(conns, NewConn(isMuted))
            /\ sessionPromiseRef' = Len(conns) + 1
    /\ UNCHANGED <<isConnected, sessionRef, streamRef, capturing>>

StartSession(op) == StartSessionWithin(op, MaxSessions)

\* the calls handleDisconnect makes on what the refs hold (lines 329-339)
TeardownCalls == streamRef # "null" \/ inputCtx # "null" \/ outputCtx # "null"

\* close() of a context the ref holds (lines 337-338)
Closed(ctx) == IF ctx = "null" THEN "null" ELSE "closed"

\* lines 325-345: handleDisconnect
HandleDisconnect(op) ==
    /\ vLast' = Ran(op, TeardownCalls, "none")
    /\ isConnected' = FALSE
    /\ status' = "disconnected"
    /\ streamRef' = IF streamRef = "null" THEN "null" ELSE "stopped"
    /\ capturing' = IF capturing.on \/ capturing.queued
                    THEN [on |-> FALSE, mutedSeen |-> capturing.mutedSeen, queued |-> TRUE]
                    ELSE NoProcessor
    /\ inputCtx' = Closed(inputCtx)
    /\ outputCtx' = Closed(outputCtx)
    /\ sessionRef' = NoConn
    /\ sessionPromiseRef' = NoConn

\* what no step of the session handlers touches: the text component and the
\* playback state
SessionFrame == UNCHANGED <<textVars, presented, nextStartTime, sources, clips, decoding,
                            arrived, interruptedAt, whatsappUrl, toolResponses,
                            toolCalls>>

\* lines 393-396: the surface is opened and the effect runs
AutoStart(limit) ==
    /\ IF ~isConnected /\ status = "disconnected"
       THEN StartSessionWithin("open", limit)
       ELSE /\ vLast' = Ran("open", FALSE, "none")
            /\ UNCHANGED <<now, status, isConnected, sessionPromiseRef, sessionRef,
                           inputCtx, outputCtx, streamRef, capturing, conns>>
    /\ UNCHANGED isMuted
    /\ SessionFrame

\* the surface is opened (prop isOpen) and the effect of lines 393-396 runs
OpenSurface ==
    /\ ~vOpen
    /\ vOpen' = TRUE
    /\ AutoStart(MaxSessions)

\* the same, where a behaviour may open MaxConns connections
Reopen ==
    /\ ~vOpen
    /\ vOpen' = TRUE
    /\ AutoStart(MaxConns)

\* lines 397-399, 418: the surface is closed and the effect runs
CloseSurface ==
    /\ vOpen
    /\ vOpen' = FALSE
    /\ IF isConnected
       THEN HandleDisconnect("close")
       ELSE /\ vLast' = Ran("close", FALSE, "none")
            /\ UNCHANGED <<status, isConnected, sessionPromiseRef, sessionRef,
                           inputCtx, outputCtx, streamRef, capturing>>
    /\ UNCHANGED <<now, isMuted, conns>>
    /\ SessionFrame

\* line 503: the disconnect button, rendered whenever the surface is open
DisconnectButton ==
    /\ vOpen
    /\ HandleDisconnect("disconnect")
    /\ UNCHANGED <<now, vOpen, isMuted, conns>>
    /\ SessionFrame

\* a toggle that restarts the session
ToggleMuteRestarts ==
    /\ vOpen
    /\ isMuted' = ~isMuted
    /\ HandleDisconnect("mute")
    /\ UNCHANGED <<now, vOpen, conns>>
    /\ SessionFrame

\* lines 347-349, 492: toggleMute
ToggleMute ==
    /\ vOpen
    /\ isMuted' = ~isMuted
    /\ vLast' = Ran("mute", FALSE, "none")
    /\ UNCHANGED <<now, vOpen, status, isConnected, sessionPromiseRef, sessionRef,
                   inputCtx, outputCtx, streamRef, capturing, conns>>
    /\ SessionFrame

\* a greeting sent whatever the ref holds
GreetingAlways == "greeting"

\* lines 118-122: the greeting goes to the connection sessionPromiseRef holds
Greeting == IF sessionPromiseRef # NoConn THEN "greeting" ELSE "none"

\* lines 106-116, 275-276, 284-296: onopen up to getUserMedia; the promise of
\* connect resolves with it and startSession stores the session
OnOpen ==
    \E c \in DOMAIN conns :
       /\ conns[c].state = "opening"
       /\ status' = "connected"
       /\ isConnected' = TRUE
       /\ sessionRef' = c
       /\ conns' = [conns EXCEPT ![c].state = "open",
                                 ![c].mic = IF inputCtx = "null" \/ sessionPromiseRef = NoConn
                                            THEN "skipped" ELSE "pending"]
       /\ vLast' = RanOn("onopen", "none", c)
       /\ UNCHANGED <<now, vOpen, isMuted, sessionPromiseRef, inputCtx, outputCtx,
                      streamRef, capturing>>
       /\ SessionFrame

\* lines 297-318, 118-122: getUserMedia resolved; capture is wired to the
\* context inputAudioContextRef holds now, then the greeting is sent
MicGranted ==
    \E c \in DOMAIN conns :
       /\ conns[c].mic = "pending"
       /\ conns' = [conns EXCEPT ![c].mic = "granted"]
       /\ streamRef' = "live"
       /\ capturing' = IF inputCtx = "running"
                       THEN [on |-> TRUE, mutedSeen |-> conns[c].mutedSeen,
                             queued |-> FALSE]
                       ELSE capturing
       /\ vLast' = RanOn("micgranted", Greeting, c)
       /\ UNCHANGED <<now, vOpen, status, isConnected, isMuted, sessionPromiseRef,
                      sessionRef, inputCtx, outputCtx>>
       /\ SessionFrame

\* lines 319-322, 118-122: getUserMedia rejected; the catch logs, and onopen
\* goes on to the greeting
MicDenied ==
    \E c \in DOMAIN conns :
       /\ conns[c].mic = "pending"
       /\ conns' = [conns EXCEPT ![c].mic = "denied"]
       /\ vLast' = RanOn("micdenied", Greeting, c)
       /\ UNCHANGED <<now, vOpen, status, isConnected, isMuted, sessionPromiseRef,
                      sessionRef, inputCtx, outputCtx, streamRef, capturing>>
       /\ SessionFrame

\* lines 307-316: what onaudioprocess does with a buffer; isMuted is the one
\* its closure holds
FrameSent(closureMuted) ==
    IF closureMuted \/ sessionPromiseRef = NoConn THEN "none" ELSE "frame"

\* lines 307-316: the processor delivers a captured buffer
CaptureBuffer ==
    /\ capturing.on /\ inputCtx = "running" /\ streamRef = "live"
    /\ vLast' = Ran("capture", FALSE, FrameSent(capturing.mutedSeen))
    /\ UNCHANGED <<now, vOpen, status, isConnected, isMuted, sessionPromiseRef,
                   sessionRef, inputCtx, outputCtx, streamRef, capturing, conns>>
    /\ SessionFrame

\* lines 307-316, 331: an audioprocess event that was queued before
\* processor.disconnect() reaches onaudioprocess after the teardown
QueuedBuffer ==
    /\ capturing.queued
    /\ capturing' = NoProcessor
    /\ vLast' = Ran("latecapture", FALSE, FrameSent(capturing.mutedSeen))
    /\ UNCHANGED <<now, vOpen, status, isConnected, isMuted, sessionPromiseRef,
                   sessionRef, inputCtx, outputCtx, streamRef, conns>>
    /\ SessionFrame

\* lines 219-222: onerror
OnError ==
    \E c \in DOMAIN conns :
       /\ conns[c].state \in {"opening", "open"}
       /\ status' = "error"
       /\ conns' = [conns EXCEPT ![c].state = "errored"]
       /\ vLast' = Ran("onerror", FALSE, "none")
       /\ UNCHANGED <<now, vOpen, isConnected, isMuted, sessionPromiseRef, sessionRef,
                      inputCtx, outputCtx, streamRef, capturing>>
       /\ SessionFrame

\* lines 215-218: onclose
OnClose ==
    \E c \in DOMAIN conns :
       /\ conns[c].state \in {"open", "errored"}
       /\ conns' = [conns EXCEPT ![c].state = "closed"]
       /\ HandleDisconnect("onclose")
       /\ UNCHANGED <<now, vOpen, isMuted>>
       /\ SessionFrame

\* lines 275, 278-281: the promise of connect rejects and startSession catches it
ConnectRejected ==
    \E c \in DOMAIN conns :
       /\ conns[c].state = "opening"
       /\ conns' = [conns EXCEPT ![c].state = "closed"]
       /\ status' = "error"
       /\ vLast' = Ran("rejected", FALSE, "none")
       /\ UNCHANGED <<now, vOpen, isConnected, isMuted, sessionPromiseRef, sessionRef,
                      inputCtx, outputCtx, streamRef, capturing>>
       /\ SessionFrame

\* lines 175-182: the tool response goes to the connection sessionPromiseRef
\* holds
ToolResponseSent(calls) ==
    IF calls # <<>> /\ sessionPromiseRef # NoConn THEN "toolResponse" ELSE "none"

\* lines 123-191: a message of an open connection reaches onmessage
SessionMessage ==
    /\ outputCtx # "null"
    /\ Len(arrived) < MaxSessionMsgs
    /\ OnMessageFrom(SessionMsgPool)
    /\ \E c \in DOMAIN conns :
          /\ conns[c].state = "open"
          /\ vLast' = RanOn("onmessage",
                            ToolResponseSent(IF toolCalls' # toolCalls
                                             THEN toolCalls'[Len(toolCalls')] ELSE <<>>),
                            c)
    /\ UNCHANGED <<vOpen, status, isConnected, isMuted, sessionPromiseRef, sessionRef,
                   inputCtx, outputCtx, streamRef, capturing, conns>>

\* lines 193-212: a clip of the session is scheduled
SessionClip ==
    /\ ScheduleClip
    /\ vLast' = Ran("clip", FALSE, "none")
    /\ UNCHANGED <<vOpen, status, isConnected, isMuted, sessionPromiseRef, sessionRef,
                   inputCtx, outputCtx, streamRef, capturing, conns>>

(***************************************************************************)
(* Initial states and specifications.                                      *)
(***************************************************************************)
TextIdle ==
    /\ isLoading = FALSE
    /\ chatSession = NoSession
    /\ error = NoError
    /\ isOpen = FALSE
    /\ clock = ClockStart
    /\ pc = "idle"
    /\ botMsgId = NoId
    /\ fullResponseText = <<>>
    /\ stream = <<>>
    /\ chunk = NoChunk
    /\ service = <<>>
    /\ fragsSeen = <<>>
    /\ acksSeen = <<>>
    /\ lastCall = Did("mount", FALSE)
    /\ presented = <<>>

VoiceIdle ==
    /\ now = 0
    /\ nextStartTime = 0
    /\ sources = {}
    /\ clips = <<>>
    /\ decoding = {}
    /\ arrived = <<>>
    /\ interruptedAt = NoInterruption
    /\ whatsappUrl = WhatsappBase
    /\ toolResponses = <<>>
    /\ toolCalls = <<>>

\* lines 16-40: the voice component as mounted
SessIdle ==
    /\ vOpen = FALSE
    /\ status = "disconnected"
    /\ isConnected = FALSE
    /\ isMuted = FALSE
    /\ sessionPromiseRef = NoConn
    /\ sessionRef = NoConn
    /\ inputCtx = "null"
    /\ outputCtx = "null"
    /\ streamRef = "null"
    /\ capturing = NoProcessor
    /\ conns = <<>>
    /\ vLast = Ran("mount", FALSE, "none")

\* a session after onopen and a granted microphone (lines 106-122, 297-318)
SessLive ==
    /\ vOpen = TRUE
    /\ status = "connected"
    /\ isConnected = TRUE
    /\ isMuted = FALSE
    /\ sessionPromiseRef = 1
    /\ sessionRef = 1
    /\ inputCtx = "running"
    /\ outputCtx = "running"
    /\ streamRef = "live"
    /\ capturing = [on |-> TRUE, mutedSeen |-> FALSE, queued |-> FALSE]
    /\ conns = <<[state |-> "open", mic |-> "granted", mutedSeen |-> FALSE]>>
    /\ vLast = RanOn("micgranted", "greeting", 1)

\* Every persisted log of at most MaxLog turns (lines 22-36: JSON.parse of the
\* stored history, else the seed turn).
Turns == [id : {SeedId, 2}, role : Roles, text : LogTexts]

InitSan ==
    /\ \E n \in 0..MaxLog : messages \in [1..n -> Turns]
    /\ apiKey \in BOOLEAN
    /\ initialMessage = NoMessage
    /\ TextIdle
    /\ VoiceIdle
    /\ SessIdle

NextSan == ToggleOpen \/ InitChatEffect

SpecSan == InitSan /\ [][NextSan]_vars

\* Persisted logs of worded turns: the seed turn, and user and model turns
\* with the texts "hi", "hello", "A", "B", "C", an empty and a blank one.
WordTexts == {<<"h", "i">>, <<"h", "e", "l", "l", "o">>, <<"A">>, <<"B">>, <<"C">>,
              <<>>, <<" ">>}
WordTurns == {SeedTurn} \cup [id : {2}, role : Roles, text : WordTexts]

InitWords ==
    /\ \E n \in 0..MaxLog : messages \in [1..n -> WordTurns]
    /\ apiKey = TRUE
    /\ initialMessage = NoMessage
    /\ TextIdle
    /\ VoiceIdle
    /\ SessIdle

SpecWords == InitWords /\ [][NextSan]_vars

InitText ==
    /\ messages = <<SeedTurn>>
    /\ apiKey \in BOOLEAN
    /\ initialMessage \in {NoMessage, <<"q">>}
    /\ TextIdle
    /\ VoiceIdle
    /\ SessIdle

NextText ==
    \/ ToggleOpen
    \/ InitChatEffect
    \/ SubmitInput
    \/ InitialMessageEffect
    \/ StreamOpened
    \/ StreamOpenFails
    \/ FragmentArrives
    \/ ToolReplyArrives
    \/ ToolReplyFails
    \/ StreamFails
    \/ StreamEnds
    \/ ClearHistory

SpecText == InitText /\ [][NextText]_vars

\* A connection is live: its output context was created at time 0 (line 92);
\* nextStartTimeRef holds 0 or what an earlier connection left in it (line 30).
InitVoice ==
    /\ messages = <<SeedTurn>>
    /\ apiKey = TRUE
    /\ initialMessage = NoMessage
    /\ TextIdle
    /\ now = 0
    /\ nextStartTime \in {0, MaxTime}
    /\ sources = {}
    /\ clips = <<>>
    /\ decoding = {}
    /\ arrived = <<>>
    /\ interruptedAt = NoInterruption
    /\ whatsappUrl = WhatsappBase
    /\ toolResponses = <<>>
    /\ toolCalls = <<>>
    /\ SessLive

NextVoice == OnMessage \/ DecodeDone \/ Ended \/ Tick

SpecVoice == InitVoice /\ [][NextVoice]_vars

\* The voice component as mounted, its surface closed (lines 16-40).
InitSession ==
    /\ messages = <<SeedTurn>>
    /\ apiKey \in BOOLEAN
    /\ initialMessage = NoMessage
    /\ TextIdle
    /\ VoiceIdle
    /\ SessIdle

NextSession ==
    \/ OpenSurface
    \/ CloseSurface
    \/ DisconnectButton
    \/ ToggleMute
    \/ OnOpen
    \/ MicGranted
    \/ MicDenied
    \/ CaptureBuffer
    \/ QueuedBuffer
    \/ OnError
    \/ OnClose
    \/ ConnectRejected
    \/ SessionMessage
    \/ SessionClip

SpecSession == InitSession /\ [][NextSession]_vars

\* Opening, closing and disconnecting over several connections.
NextReconnect ==
    \/ Reopen
    \/ CloseSurface
    \/ DisconnectButton
    \/ OnOpen
    \/ MicGranted
    \/ CaptureBuffer
    \/ OnError
    \/ OnClose

SpecReconnect == InitSession /\ [][NextReconnect]_vars

\* The invocations a fragment or a message may carry: one or two calls, of
\* any of the names, with few or with all arguments set.
ToolNames == {BookingTool, WhatsappTool, OtherTool}
ToolArgs == {ArgsSam, ArgsFull}
CallLists ==
    {<<Call("c1", n, a)>> : n \in ToolNames, a \in ToolArgs}
    \cup {<<Call("c1", n[1], a[1]), Call("c2", n[2], a[2])>> :
             n \in ToolNames \X ToolNames, a \in ToolArgs \X ToolArgs}
ToolStreams == {<<[calls |-> cs, text |-> <<"x">>]>> : cs \in CallLists}
ToolMsgPool == {VoiceMsg(FALSE, cs, 0) : cs \in CallLists}

\* lines 143-183 on a live connection: a message with a toolCall
ToolMessage ==
    /\ \E c \in DOMAIN conns : conns[c].state = "open"
    /\ OnMessageFrom(ToolMsgPool)
    /\ UNCHANGED sessVars

\* The text engine after an accepted submit whose stream has opened (lines
\* 247-259), the voice component not started.
InitToolsText ==
    /\ messages = <<SeedTurn,
                    [id |-> ClockStart, role |-> "user", text |-> <<"q">>],
                    [id |-> ClockStart + 2, role |-> "model", text |-> <<>>]>>
    /\ isLoading = TRUE
    /\ chatSession = [exists |-> TRUE, history |-> <<>>]
    /\ error = NoError
    /\ isOpen = TRUE
    /\ apiKey = TRUE
    /\ initialMessage = NoMessage
    /\ clock = ClockStart + 3
    /\ pc = "streaming"
    /\ botMsgId = ClockStart + 2
    /\ fullResponseText = <<>>
    /\ stream \in ToolStreams
    /\ chunk = NoChunk
    /\ service = <<[kind |-> "stream", text |-> <<"q">>]>>
    /\ fragsSeen = <<>>
    /\ acksSeen = <<>>
    /\ lastCall = Did("opened", FALSE)
    /\ presented = <<>>
    /\ VoiceIdle
    /\ SessIdle

\* A live voice connection (lines 106-122), the text engine idle.
InitToolsVoice ==
    /\ messages = <<SeedTurn>>
    /\ apiKey = TRUE
    /\ initialMessage = NoMessage
    /\ TextIdle
    /\ VoiceIdle
    /\ SessLive

InitTools == InitToolsText \/ InitToolsVoice

NextTools ==
    \/ FragmentArrives
    \/ ToolReplyArrives
    \/ ToolReplyFails
    \/ StreamFails
    \/ StreamEnds
    \/ ToolMessage

SpecTools == InitTools /\ [][NextTools]_vars

\* Both components side by side, with or without credentials: the chat
\* surface with its session effect and its submits (a stream that is accepted
\* fails to open), the voice surface with its auto-start and the callbacks of
\* the connection.
NextCredentials ==
    \/ ToggleOpen
    \/ InitChatEffect
    \/ SubmitInput
    \/ InitialMessageEffect
    \/ StreamOpenFails
    \/ ClearHistory
    \/ OpenSurface
    \/ CloseSurface
    \/ DisconnectButton
    \/ OnOpen
    \/ OnError
    \/ OnClose
    \/ ConnectRejected

SpecCredentials == InitText /\ [][NextCredentials]_vars

(***************************************************************************)
(* Properties.                                                             *)
(***************************************************************************)
Alternates(h) ==
    \A i \in 1..Len(h) : h[i].role = (IF i % 2 = 1 THEN "user" ELSE "model")

\* C1: for every persisted turn log, the history handed to session creation
\* alternates user, model, user, ... starting with user, and is empty or ends
\* on a model turn.
C1_HistoryAlternates ==
    chatSession.exists =>
        /\ Alternates(chatSession.history)
        /\ \/ chatSession.history = <<>>
           \/ chatSession.history[Len(chatSession.history)].role = "model"

\* a log of three turns of which one had to be dropped, leaving one exchange
C1_Witness ==
    /\ chatSession.exists
    /\ Len(messages) = 3
    /\ Len(HistoryMessages(messages)) = 3
    /\ Len(chatSession.history) = 2

\* the part of a started clip's window [start, end) that is played: a stopped
\* clip plays no further than the instant of its stop
EffEnd(c) ==
    IF c.stoppedAt = NotStopped THEN c.end ELSE Max(c.start, Min(c.end, c.stoppedAt))

Overlap(c, d) == Max(c.start, d.start) < Min(EffEnd(c), EffEnd(d))

C3_InterruptWinsRaces ==
    \A id \in sources : clips[id].msg > interruptedAt.seq

\* C4: the first clip scheduled after an interruption was processed starts at
\* the output timeline's current time at the moment it is scheduled, whatever
\* nextStartTime was before the interruption.
C4_StartsNowAfterInterrupt ==
    \A i \in 1..Len(clips) : clips[i].first => clips[i].start = clips[i].callNow

\* the cursor was ahead of the clock when the interruption came, and the next
\* clip was scheduled at a later instant than the interruption
C4_Witness ==
    /\ clips # <<>>
    /\ clips[Len(clips)].first
    /\ ~interruptedAt.fresh
    /\ interruptedAt.cursorBefore > clips[Len(clips)].callNow
    /\ clips[Len(clips)].callNow > interruptedAt.time

InterruptedStep ==
    /\ Len(arrived') = Len(arrived) + 1
    /\ arrived'[Len(arrived')]

\* C5: processing a message with interrupted = true stops every source of the
\* active set, leaves the set empty, sets nextStartTime to the current time of
\* the output timeline and schedules no audio of that message: no clip and no
\* pending decode ever belongs to an interrupted message.
C5_InterruptionClears ==
    /\ [](/\ \A i \in 1..Len(clips) : ~arrived[clips[i].msg]
          /\ \A d \in decoding : ~arrived[d.seq])
    /\ [][InterruptedStep =>
            /\ sources' = {}
            /\ nextStartTime' = now'
            /\ \A id \in sources : clips'[id].stoppedAt = now
            /\ Len(clips') = Len(clips)
            /\ decoding' = decoding]_vars

\* an interruption that carried audio has just stopped two sources
C5_Witness ==
    /\ interruptedAt.seq = Len(arrived)
    /\ interruptedAt.bundled > 0
    /\ sources = {}
    /\ Len(clips) = 2
    /\ \A i \in 1..Len(clips) : clips[i].stoppedAt = interruptedAt.time
    /\ nextStartTime = now

RECURSIVE SentSinceStream(_)
SentSinceStream(log) ==
    IF log = <<>> \/ log[Len(log)].kind = "stream" THEN 0
    ELSE 1 + SentSinceStream(SubSeq(log, 1, Len(log) - 1))

RECURSIVE CallsDelivered(_)
CallsDelivered(frags) ==
    IF frags = <<>> THEN 0 ELSE Len(Head(frags).calls) + CallsDelivered(Tail(frags))

\* C6: every tool invocation the service delivers gets exactly one ToolResult
\* sent back: when the text engine has finished a fragment, it has sent as many
\* results in this exchange as the exchange's fragments carried invocations.
C6_OneResultPerInvocation ==
    pc = "streaming" => SentSinceStream(service) = CallsDelivered(fragsSeen)

RECURSIVE Flatten(_)
Flatten(ss) == IF ss = <<>> THEN <<>> ELSE Head(ss) \o Flatten(Tail(ss))

BookingIdsDispatched ==
    LET rs == Flatten(toolResponses) IN
    {rs[i].id : i \in {k \in 1..Len(rs) : rs[k].name = BookingTool}}

\* C7: dispatching an invocation id that was dispatched before triggers no
\* second side effect: the booking form has been presented as many times as
\* there are distinct ids among the open_booking_form invocations dispatched.
C7_OneEffectPerId ==
    Len(presented) = Cardinality(BookingIdsDispatched)

BookingCalls(frag) == Len(SelectSeq(frag.calls, LAMBDA c : c.name = BookingTool))

\* what the placeholder must read after the given fragments and replies: per
\* fragment, the replies to its acknowledgments and then its own text; of a
\* fragment whose acknowledgments are not all answered, the replies so far
RECURSIVE ExpectedText(_, _)
ExpectedText(frags, acks) ==
    IF frags = <<>> THEN <<>>
    ELSE LET k == BookingCalls(Head(frags)) IN
         IF Len(acks) >= k
         THEN Flatten(SubSeq(acks, 1, k)) \o Head(frags).text
                 \o ExpectedText(Tail(frags), SubSeq(acks, k + 1, Len(acks)))
         ELSE Flatten(acks)

\* C8: the placeholder turn's text always is the concatenation, in receipt
\* order, of what was appended; the reply to a fragment's tool acknowledgment
\* comes before that fragment's own text; nothing is reordered, dropped or
\* deduplicated.
C8_PlaceholderInOrder ==
    botMsgId # NoId =>
        \A i \in 1..Len(messages) :
            messages[i].id = botMsgId =>
                messages[i].text = ExpectedText(fragsSeen, acksSeen)

\* a fragment with a booking call and text "y" was answered with "k", and a
\* plain fragment "x" followed
C8_Witness ==
    /\ fragsSeen = <<OtherThenBooking, PlainX>>
    /\ acksSeen = << <<"k">> >>
    /\ \E i \in 1..Len(messages) :
          messages[i].id = botMsgId /\ messages[i].text = <<"k", "y", "x">>

\* C9: a submit whose text is blank, or that comes while a send is in flight
\* or while no session exists, changes neither the turn log, the in-flight
\* flag, the error flag nor the session, and sends nothing.
C9_RejectedSubmitIsNoOp ==
    [][(/\ lastCall'.op = "submit"
        /\ lastCall'.blank \/ isLoading \/ ~chatSession.exists)
        => UNCHANGED <<messages, isLoading, error, chatSession, service, presented,
                       pc, stream>>]_vars

\* a non-blank submit was made, and rejected, while a response was streaming
C9_Witness ==
    /\ lastCall = Did("submit", FALSE)
    /\ pc = "streaming"
    /\ isLoading
    /\ chatSession.exists

\* C10: when the stream, or a tool-result send inside it, fails, the turns and
\* the text appended so far stay as they are, the error flag is set and the
\* in-flight flag is cleared, so that the next submit is not rejected for a
\* send in flight.
C10_FailureKeepsPartial ==
    /\ [][lastCall'.op = "fail" =>
            /\ messages' = messages
            /\ error' = ErrStream
            /\ isLoading' = FALSE
            /\ pc' = "idle"
            /\ chatSession' = chatSession]_vars
    /\ [](lastCall.op = "fail" /\ chatSession.exists => ~SubmitRejected(<<"q">>))

\* the stream failed after "k" and "y" were appended; both turns are in the log
C10_Witness ==
    /\ lastCall.op = "fail"
    /\ error = ErrStream
    /\ ~isLoading
    /\ \E i \in 2..Len(messages) :
          /\ messages[i].id = botMsgId
          /\ messages[i].text = <<"k", "y">>
          /\ messages[i - 1].role = "user"

\* C11: muting and unmuting take effect on the very next captured buffer: in
\* a connected session a buffer captured while muted sends no frame, and a
\* buffer captured while unmuted sends one.
C11_MuteGatesNextBuffer ==
    vLast.op = "capture" /\ status = "connected" =>
        (vLast.sent = "frame") = ~isMuted

\* C12: toggling mute flips the mute flag and changes nothing else: the
\* status, the connection handles, the connections, the capture stream and
\* its processor, the audio contexts, the active set and nextStartTime stay
\* as they are, so nothing is disconnected or reconnected.
C12_MuteChangesOnlyTheFlag ==
    [][vLast'.op = "mute" =>
          /\ isMuted' = ~isMuted
          /\ UNCHANGED <<status, isConnected, sessionPromiseRef, sessionRef, conns,
                         streamRef, capturing, inputCtx, outputCtx, sources,
                         nextStartTime, vOpen>>]_vars

\* the flag was flipped to muted in a connected session that is capturing
C12_Witness ==
    /\ vLast.op = "mute"
    /\ isMuted
    /\ status = "connected"
    /\ isConnected
    /\ streamRef = "live"
    /\ capturing.on
    /\ sessionPromiseRef # NoConn

\* C13: the voice status never becomes connected from disconnected or from
\* error: a step that makes it connected starts in connecting.
C13_ConnectedOnlyFromConnecting ==
    [][status' = "connected" /\ status # "connected" => status = "connecting"]_vars

\* C14: onerror runs the teardown of an explicit disconnect and leaves the
\* status at error: after it no capture track is live, neither audio context
\* is running and both connection handles are dropped.
C14_OnErrorTearsDown ==
    vLast.op = "onerror" =>
        /\ status = "error"
        /\ streamRef # "live"
        /\ ~capturing.on
        /\ inputCtx # "running"
        /\ outputCtx # "running"
        /\ sessionRef = NoConn
        /\ sessionPromiseRef = NoConn

\* C15: closing a voice session that is connecting or connected, by closing
\* the surface or by the disconnect button, ends with the status
\* disconnected, no live capture track, no clip in the active set and no
\* connection left opening or open.
C15_CloseReleasesEverything ==
    [][vLast'.op \in {"close", "disconnect"} /\ status \in {"connecting", "connected"} =>
          /\ status' = "disconnected"
          /\ streamRef' # "live"
          /\ ~capturing'.on
          /\ sources' = {}
          /\ \A c \in DOMAIN conns' : conns'[c].state \notin {"opening", "open"}]_vars

\* C16: the explicit disconnect is idempotent: pressed when the status is
\* already disconnected, it changes no state and issues no teardown call.
C16_DisconnectIdempotent ==
    [][vLast'.op = "disconnect" /\ status = "disconnected" =>
          /\ ~vLast'.tore
          /\ UNCHANGED <<status, isConnected, sessionPromiseRef, sessionRef, conns,
                         streamRef, capturing, inputCtx, outputCtx, sources,
                         nextStartTime>>]_vars

\* C17: after every teardown path (explicit disconnect, onclose, onerror, a
\* failed start) the active set is empty and nextStartTime is back at its
\* initial value, which is the time a new output context starts at.
C17_TeardownResetsPlayback ==
    vLast.op \in {"disconnect", "onclose", "onerror", "rejected"} =>
        /\ sources = {}
        /\ nextStartTime = 0

\* C18: when the microphone cannot be acquired the connection attempt is
\* aborted: the status does not stay connected, nothing is sent on the
\* connection and no connection handle is kept.
C18_MicFailureAborts ==
    vLast.op = "micdenied" =>
        /\ status # "connected"
        /\ ~isConnected
        /\ vLast.sent = "none"
        /\ sessionPromiseRef = NoConn

\* C19: with the credential present, when the surface was closed with the
\* status error and is opened again, a new connection attempt starts: the
\* status becomes connecting.
C19_ReopenAfterErrorReconnects ==
    [][vLast.op = "close" /\ status = "error" /\ vLast'.op = "open" /\ apiKey =>
          status' = "connecting"]_vars

\* C20: a text session is created only by the effect, with the chat surface
\* open and no session existing; while a session exists no step, and so no
\* change of the turn log, creates or replaces it.
C20_SessionOnlyWhenNoneExists ==
    [][chatSession' # chatSession /\ chatSession'.exists =>
          /\ isOpen
          /\ ~chatSession.exists
          /\ lastCall'.op = "init"]_vars

\* the surface is open and the log has grown since the session was created
\* from it, and the session is still the one created then
C20_Witness ==
    /\ isOpen
    /\ chatSession.exists
    /\ Len(messages) > 2
    /\ chatSession.history # Sanitize(messages)
    /\ pc = "idle"

\* the open_booking_form invocations received so far, in order, by the text
\* engine (fragments) and by the voice engine (messages)
CallsOf(frags) == [i \in 1..Len(frags) |-> frags[i].calls]

BookingCallsReceived ==
    SelectSeq(Flatten(CallsOf(fragsSeen)) \o Flatten(toolCalls),
              LAMBDA c : c.name = BookingTool)

DraftOf(draft, args) ==
    /\ DOMAIN draft = {"name", "phone", "email", "address", "deviceType",
                       "serviceType", "description"}
    /\ draft.description = args.issue
    /\ draft.name = args.name
    /\ draft.phone = args.phone
    /\ draft.email = args.email
    /\ draft.address = args.address
    /\ draft.deviceType = args.deviceType
    /\ draft.serviceType = args.serviceType

DraftsForwarded ==
    /\ Len(presented) <= Len(BookingCallsReceived)
    /\ \A i \in 1..Len(presented) : DraftOf(presented[i], BookingCallsReceived[i].args)

BookingResults(text, voice) ==
    /\ \A i \in 1..Len(service) :
          service[i].kind = "functionResponse" =>
             service[i].name = BookingTool /\ service[i].text = text
    /\ \A i \in 1..Len(toolResponses) : \A j \in 1..Len(toolResponses[i]) :
          toolResponses[i][j].name = BookingTool => toolResponses[i][j].result = voice

\* C21 as stated: in both engines a dispatched open_booking_form forwards the
\* draft built from the same-named arguments, description from issue, and
\* returns "Form Opened with prefilled data.".
C21_BookingDispatchSameResult ==
    /\ DraftsForwarded
    /\ BookingResults("Form Opened with prefilled data.",
                      "Form Opened with prefilled data.")

\* C21 amended: the drafts are as stated in both engines; the text engine
\* returns "Form Opened with prefilled data." and the voice engine returns
\* "Booking Form Opened/Updated on User Screen.".
C21_BookingDispatch ==
    /\ DraftsForwarded
    /\ BookingResults("Form Opened with prefilled data.",
                      "Booking Form Opened/Updated on User Screen.")
    /\ Len(toolResponses) = Len(toolCalls)
    /\ pc = "streaming" /\ fragsSeen # <<>> =>
          Len(presented) = Len(BookingCallsReceived)

\* the voice engine has dispatched an open_booking_form with every argument
\* set and answered it
C21_Witness ==
    /\ toolResponses # <<>>
    /\ Len(presented) = 1
    /\ presented[1].description = "screen"
    /\ presented[1].phone = "081"
    /\ \E j \in 1..Len(toolResponses[1]) : toolResponses[1][j].name = BookingTool

\* the argument a field of the draft is read from
ArgOf(field) == IF field = "description" THEN "issue" ELSE field

\* C22: each open_booking_form call replaces the draft: whatever earlier
\* calls set, a field whose argument is unset in the current invocation is
\* unset in the draft handed to the collaborator, and a field whose argument
\* is set carries that argument.
C22_DraftReplacesNotMerges ==
    /\ Len(presented) <= Len(BookingCallsReceived)
    /\ \A i \in 1..Len(presented) : \A f \in DOMAIN presented[i] :
          presented[i][f] = BookingCallsReceived[i].args[ArgOf(f)]

\* a fuller draft was presented, then one from an invocation with only the
\* name: the phone of the first is not in the second
C22_Witness ==
    /\ Len(presented) = 2
    /\ presented[1].phone = "081"
    /\ presented[1].description = "screen"
    /\ presented[2].name = "Sam"
    /\ presented[2].phone = Undefined
    /\ presented[2].description = Undefined

UnknownCalls(calls) == SelectSeq(calls, LAMBDA c : c.name \notin {BookingTool, WhatsappTool})

BookingResultsSent ==
    Len(SelectSeq(service, LAMBDA m : m.kind = "functionResponse" /\ m.name = BookingTool))
    + Len(SelectSeq(Flatten(toolResponses), LAMBDA r : r.name = BookingTool))

\* the update_whatsapp_context invocations whose results were sent
WhatsappAnswered ==
    SelectSeq(Flatten(SubSeq(toolCalls, 1, Len(toolResponses))),
              LAMBDA c : c.name = WhatsappTool)

\* C24: when the result of a recognized invocation has been sent, its effect
\* has happened: every open_booking_form result sent has its draft presented,
\* and once an update_whatsapp_context result was sent the contact link is
\* the one of the last such invocation answered.
C24_EffectBeforeAck ==
    /\ BookingResultsSent <= Len(presented)
    /\ \A i \in 1..BookingResultsSent :
          DraftOf(presented[i], BookingCallsReceived[i].args)
    /\ WhatsappAnswered # <<>> =>
          whatsappUrl = WhatsappBase \o <<"?text=">>
                           \o EncodeURIComponent(
                                 WhatsappAnswered[Len(WhatsappAnswered)].args.summary)

\* the voice engine has answered a message that carried both recognized
\* invocations; the form is presented and the link is updated
C24_Witness ==
    /\ Len(toolResponses) = 1
    /\ Len(toolResponses[1]) = 2
    /\ toolResponses[1][1].name = WhatsappTool
    /\ toolResponses[1][2].name = BookingTool
    /\ whatsappUrl # WhatsappBase
    /\ Len(presented) = 1

\* C25: audio messages are played in arrival order: of two clips, the one of
\* the message that arrived first was scheduled first and does not start
\* later than the other.
C25_ClipsInArrivalOrder ==
    \A i, j \in 1..Len(clips) :
       clips[i].msg < clips[j].msg => i < j /\ clips[i].start <= clips[j].start

LiveConns == {c \in DOMAIN conns : conns[c].state \in {"opening", "open"}}

\* C26: at most one voice connection is live at any time: no connection is
\* opening or open while another one is.
C26_OneLiveConnection == Cardinality(LiveConns) <= 1

DriftLog ==
    <<[id |-> 2, role |-> "user", text |-> <<"h", "i">>],
      [id |-> 2, role |-> "model", text |-> <<>>],
      [id |-> 2, role |-> "model", text |-> <<"h", "e", "l", "l", "o">>]>>

\* C27 as stated: the session created from the log [user:"hi", model:"",
\* model:"hello"] gets the empty history.
C27_DriftGivesEmpty ==
    chatSession.exists /\ messages = DriftLog => chatSession.history = <<>>

\* C27 amended: from the log [user:"hi", model:"", model:"hello"] the blank
\* model turn is removed before the walk, the turn model:"hello" is kept
\* after user:"hi", and the history is [user:"hi", model:"hello"].
C27_DriftKeepsExchange ==
    chatSession.exists /\ messages = DriftLog =>
        chatSession.history =
            <<[role |-> "user", text |-> <<"h", "i">>],
              [role |-> "model", text |-> <<"h", "e", "l", "l", "o">>]>>

\* a session was created from that log
C27_Witness ==
    /\ chatSession.exists
    /\ messages = DriftLog
    /\ lastCall.op = "init"

IsPrefix(s, t) == Len(s) <= Len(t) /\ SubSeq(t, 1, Len(s)) = s

\* C28: in every step either the log is reset to the seed turn by the history
\* reset, or every turn stays at its place with its id and role; a user
\* turn's text stays, and a model turn's text changes only by a suffix
\* appended to the turn of the response in flight.
C28_TurnsOnlyGrow ==
    [][\/ lastCall'.op = "clear" /\ messages' = <<SeedTurn>>
       \/ /\ Len(messages') >= Len(messages)
          /\ \A i \in 1..Len(messages) :
                /\ messages'[i].id = messages[i].id
                /\ messages'[i].role = messages[i].role
                /\ messages'[i].text # messages[i].text =>
                      /\ messages[i].role = "model"
                      /\ messages[i].id = botMsgId
                      /\ pc \in {"streaming", "toolwait"}
                      /\ isLoading
                      /\ IsPrefix(messages[i].text, messages'[i].text)
                      /\ messages'[i].text = fullResponseText']_vars

\* the second response is in flight: its turn has grown twice, and the turns
\* of the first exchange stand before it as they were
C28_Witness ==
    /\ pc = "streaming"
    /\ Len(messages) = 5
    /\ messages[5].id = botMsgId
    /\ Len(messages[5].text) >= 2
    /\ messages[2].role = "user"
    /\ messages[3].role = "model"
    /\ messages[3].text # <<>>
    /\ messages[3].text # messages[5].text

\* The reference procedure. A turn is blank when its text has no character
\* other than white space; the role expected next follows from how many
\* turns were kept; a history of odd length ends on a user turn.
RefBlank(text) == \A i \in 1..Len(text) : text[i] = " "

RefRemaining(log) == SelectSeq(log, LAMBDA m : m.id # 1 /\ ~RefBlank(m.text))

RECURSIVE RefKept(_, _)
RefKept(turns, n) ==
    IF n = 0 THEN <<>>
    ELSE LET before == RefKept(turns, n - 1)
             expectedRole == IF Len(before) % 2 = 0 THEN "user" ELSE "model"
         IN IF turns[n].role = expectedRole
            THEN before \o <<[role |-> turns[n].role, text |-> turns[n].text]>>
            ELSE before

Reference(log) ==
    LET kept == RefKept(RefRemaining(log), Len(RefRemaining(log)))
    IN IF Len(kept) % 2 = 1 THEN SubSeq(kept, 1, Len(kept) - 1) ELSE kept

\* h is the turns of log at increasing positions, roles and texts unchanged
IsSubsequenceOf(h, log) ==
    \E at \in [1..Len(h) -> 1..Len(log)] :
       /\ \A i \in 1..Len(h) : h[i] = [role |-> log[at[i]].role, text |-> log[at[i]].text]
       /\ \A i \in 1..(Len(h) - 1) : at[i] < at[i + 1]

ExampleLog ==
    <<[id |-> 2, role |-> "user", text |-> <<"A">>],
      [id |-> 2, role |-> "model", text |-> <<"B">>],
      [id |-> 2, role |-> "user", text |-> <<"C">>]>>

\* C29: the history a session is created with is the output of the reference
\* procedure on the log, and is a subsequence of the log with roles and texts
\* unchanged; from [user:A, model:B, user:C] it is [user:A, model:B].
C29_SanitizerIsReference ==
    chatSession.exists =>
        /\ chatSession.history = Reference(messages)
        /\ IsSubsequenceOf(chatSession.history, messages)
        /\ messages = ExampleLog =>
              chatSession.history = <<[role |-> "user", text |-> <<"A">>],
                                      [role |-> "model", text |-> <<"B">>]>>

\* a session was created from the example log
C29_Witness ==
    /\ chatSession.exists
    /\ messages = ExampleLog
    /\ Len(chatSession.history) = 2

ScheduleStep == Len(clips') = Len(clips) + 1

\* C30: a schedule step starts its clip at the later of nextStartTime and
\* now, leaves nextStartTime at the clip's end and puts the clip in the
\* active set; a clip leaves the set without an interruption only once its
\* end has passed; but for interruptions nextStartTime never decreases, and
\* it is never below the end of a clip that no interruption stopped.
C30_ScheduleStep ==
    /\ [][ScheduleStep =>
             LET id == Len(clips')
                 clip == clips'[id]
             IN /\ clip.start = (IF nextStartTime >= now THEN nextStartTime ELSE now)
                /\ clip.callNow = now
                /\ nextStartTime' = clip.end
                /\ clip.end > clip.start
                /\ sources' = sources \cup {id}]_vars
    /\ [][~InterruptedStep =>
             /\ nextStartTime' >= nextStartTime
             /\ \A id \in sources \ sources' : now >= clips[id].end]_vars
    /\ [][\A i \in 1..Len(clips') :
             clips'[i].stoppedAt = NotStopped => nextStartTime' >= clips'[i].end]_vars

\* two clips were queued back to back; the first has played to its end and
\* left the active set, the second is still in it
C30_Witness ==
    /\ Len(clips) = 2
    /\ clips[2].start = clips[1].end
    /\ clips[2].start > clips[2].callNow
    /\ sources = {2}
    /\ clips[1].stoppedAt = NotStopped
    /\ nextStartTime = clips[2].end

\* the moves of the handler's position: idle, sending (the stream is being
\* opened), streaming (with the wait for a tool reply inside it), idle
PcMoves ==
    { <<"idle", "opening">>, <<"opening", "streaming">>, <<"opening", "idle">>,
      <<"streaming", "toolwait">>, <<"toolwait", "streaming">>,
      <<"streaming", "idle">>, <<"toolwait", "idle">> }

\* C31: the text engine moves idle, sending, streaming, idle; the in-flight
\* flag is set exactly while an exchange is in flight; while one is in flight
\* no submit, typed or automatic, opens another stream; and the end or the
\* failure of the stream brings the engine back to idle with the flag cleared.
C31_OneExchangeInFlight ==
    /\ [][pc' # pc => <<pc, pc'>> \in PcMoves]_vars
    /\ [][isLoading' <=> pc' # "idle"]_vars
    /\ [][pc # "idle" => AcceptedSubmits' = AcceptedSubmits]_vars
    /\ [][AcceptedSubmits' # AcceptedSubmits =>
            pc = "idle" /\ pc' = "opening" /\ AcceptedSubmits' = AcceptedSubmits + 1]_vars
    /\ [][lastCall'.op \in {"end", "fail"} => pc' = "idle" /\ ~isLoading']_vars

\* a non-blank submit came while the engine waited for a tool reply, and the
\* exchange in flight is still the only one
C31_Witness ==
    /\ lastCall = Did("submit", FALSE)
    /\ pc = "toolwait"
    /\ chatSession.exists
    /\ AcceptedSubmits = 1

\* C32: when an accepted submit leaves the sending step, by the stream opening
\* or by its failure to open, and so before any fragment is consumed, the log
\* ends with the user turn of the submitted text followed by an empty agent
\* placeholder turn.
C32_SubmitAppendsBothTurns ==
    [][pc = "opening" /\ pc' # "opening" =>
         LET n == Len(messages') IN
         /\ n >= 2
         /\ messages'[n - 1].role = "user"
         /\ messages'[n - 1].text = service[Len(service)].text
         /\ messages'[n].role = "model"
         /\ messages'[n].text = <<>>]_vars

\* C33: a voice message that carries n tool invocations is answered, by the
\* handler that received it, with exactly one tool response, sent on the
\* connection the message came on, that holds n results in the order of the
\* invocations, each with the id and the name of its invocation.
C33_OneAckPerMessage ==
    [][vLast'.op = "onmessage" /\ toolCalls' # toolCalls =>
         LET calls == toolCalls'[Len(toolCalls')] IN
         /\ vLast'.sent = "toolResponse"
         /\ sessionPromiseRef = vLast'.on
         /\ Len(toolResponses') = Len(toolResponses) + 1
         /\ LET acks == toolResponses'[Len(toolResponses')] IN
            /\ Len(acks) = Len(calls)
            /\ \A i \in 1..Len(calls) :
                  acks[i].id = calls[i].id /\ acks[i].name = calls[i].name]_vars

\* the onopen handler of a connection has run to its end: the microphone was
\* granted or denied, or startInputStream returned at once
OnOpenDone(last, cs) ==
    \/ last.op \in {"micgranted", "micdenied"}
    \/ last.op = "onopen" /\ cs[last.on].mic = "skipped"

\* C34: when the onopen handler that moved the session to connected has run
\* to its end, capture is streaming and one greeting prompt has been sent, on
\* the connection that opened; the handler runs once for a connection, so
\* the connection gets one greeting, neither none nor two.
C34_GreetingOncePerConnection ==
    [][OnOpenDone(vLast', conns') =>
         /\ capturing'.on
         /\ vLast'.sent = "greeting"
         /\ sessionPromiseRef = vLast'.on]_vars

\* C35: without credentials neither component ever has a session: the text
\* engine keeps no chat session, its effect sets the error flag, which then
\* stays set, and every submit leaves the log as it is and sends nothing; the
\* voice engine opens no connection, every start of a session ends in status
\* error, and an error status is left only by a teardown the user asks for,
\* never by a start the component makes on its own.
C35_NoCredentialsNoSession ==
    /\ [][~apiKey =>
            /\ ~chatSession'.exists
            /\ service' = <<>> /\ messages' = <<SeedTurn>> /\ ~isLoading' /\ pc' = "idle"
            /\ conns' = <<>> /\ sessionPromiseRef' = NoConn /\ sessionRef' = NoConn
            /\ ~isConnected' /\ status' \in {"disconnected", "error"}]_vars
    /\ [][~apiKey /\ lastCall' # lastCall /\ lastCall'.op = "init" => error' = ErrNoKey]_vars
    /\ [][~apiKey /\ error = ErrNoKey => error' = ErrNoKey]_vars
    /\ [][~apiKey /\ vLast' # vLast /\ vLast'.op = "open" => status' = "error"]_vars
    /\ [][~apiKey /\ status = "error" /\ status' # "error" =>
            vLast'.op \in {"close", "disconnect"} /\ status' = "disconnected"]_vars

\* without credentials the chat was opened and a submit made, and the voice
\* surface was opened: both show their error and nothing was started
C35_Witness ==
    /\ ~apiKey
    /\ isOpen /\ error = ErrNoKey /\ lastCall = Did("submit", FALSE)
    /\ vOpen /\ vLast.op = "open" /\ status = "error"
    /\ conns = <<>> /\ ~chatSession.exists

\* C36: the walk and the trailing-user pop, applied to the history the
\* sanitizer produced, give that history back unchanged.
C36_SanitizerIdempotent ==
    chatSession.exists =>
        PopTrailingUser(Walk(chatSession.history, "user", <<>>)) = chatSession.history

\* a log user, model, user: the walk kept all three turns, the pop removed
\* the last, and one exchange is the history
C36_Witness ==
    /\ chatSession.exists
    /\ Len(messages) = 3
    /\ messages[1].role = "user" /\ messages[2].role = "model"
    /\ messages[3].role = "user"
    /\ Len(Walk(HistoryMessages(messages), "user", <<>>)) = 3
    /\ Len(chatSession.history) = 2

\* C37: a teardown leaves sessionPromiseRef empty, only the start of a new
\* session fills it again, and while it is empty no handler sends anything:
\* a capture buffer that was still queued sends no frame, an onopen that
\* comes late or ends late sends no greeting, and a message that comes late
\* gets no tool response.
C37_NothingSentAfterTeardown ==
    /\ [][vLast' # vLast /\ vLast'.op \in {"disconnect", "onclose"} =>
            sessionPromiseRef' = NoConn]_vars
    /\ [][vLast' # vLast /\ vLast'.op = "close" /\ isConnected =>
            sessionPromiseRef' = NoConn]_vars
    /\ [][sessionPromiseRef = NoConn /\ sessionPromiseRef' # NoConn =>
            vLast'.op = "open" /\ status' = "connecting"]_vars
    /\ [][sessionPromiseRef = NoConn /\ conns # <<>> =>
            vLast'.sent = "none" /\ toolResponses' = toolResponses]_vars

\* after the teardown the connection, which is still open, delivered a
\* message with two invocations: their effects were applied, nothing was sent
C37_Witness ==
    /\ vLast.op = "onmessage"
    /\ sessionPromiseRef = NoConn
    /\ status = "disconnected"
    /\ toolCalls # <<>>
    /\ toolResponses = <<>>

\* C38: once the turn log is the seed turn alone, as it is after a full
\* reset, it stays the seed turn alone across every step that is not an
\* accepted submit: the steps of an exchange that was in flight at the reset
\* (the opening of its stream, its fragments, its tool replies, its end or
\* failure) neither add nor alter a turn.
C38_ResetLogStaysSeed ==
    [][messages = <<SeedTurn>> /\ AcceptedSubmits' = AcceptedSubmits =>
         messages' = <<SeedTurn>>]_vars

\* C39: in every reachable state of the voice engine the isConnected flag is
\* true exactly when the status is connected.
C39_ConnectedFlagMatchesStatus ==
    isConnected <=> status = "connected"

====
